---- MODULE Spec2Model ----
(***************************************************************************)
(* The note-type manager dialog of qt/aqt/models.py (class Models) and its *)
(* "add note type" picker (class AddModel), over the collection API.       *)
(*                                                                         *)
(* Every event handler runs to completion on the UI thread; the prompts it *)
(* opens (getText, askUser, the picker, the options dialog) are modal, so  *)
(* a handler is one action whose user inputs are drawn with \E.  The       *)
(* background tasks started through mw.taskman.with_progress are separate  *)
(* steps: the worker runs the closure (RunTask), then the result is        *)
(* marshalled back to the UI thread (on_done).                             *)
(***************************************************************************)
EXTENDS Integers, Sequences, FiniteSets, TLC

\* ---- bounds --------------------------------------------------------------
MaxInit == 2      \* note types in the collection when the dialog opens
MaxId == 3        \* note type ids ever allocated
MaxLen == 1       \* letters in a text typed into a prompt

\* ---- text ----------------------------------------------------------------
Quote == "\""
Chars == {"a", Quote}
Plain == UNION {[1..n -> {"a"}] : n \in 0..MaxLen}
WithQuote(p) ==
    {[i \in 1..(Len(p) + 1) |-> IF i <= k THEN p[i] ELSE IF i = k + 1 THEN Quote ELSE p[i - 1]]
        : k \in 0..Len(p)}
\* what the user types: up to MaxLen letters, with or without a double quote
Texts == Plain \cup UNION {WithQuote(p) : p \in Plain}

\* str.replace('"', "") of onRename / onAdd
\* (variant: the quotes are kept)
replace_quote_keep(txt) == txt
replace_quote(txt) == SelectSeq(txt, LAMBDA c : c # Quote)

\* ---- python list indexing (negative indices count from the end) ----------
PyOk(s, i) == -Len(s) <= i /\ i < Len(s)
PyGet(s, i) == s[IF i >= 0 THEN i + 1 ELSE Len(s) + i + 1]

\* ---- the collection API (anki.models.ModelManager, anki.collection) ------
\* a note type dict, reduced to the keys the listing shows; 0 is "no id yet"
None == [id |-> 0, name |-> <<>>]

HasId(c, id) == \E i \in 1..Len(c) : c[i].id = id

\* models.get: the note type dict of an id
mm_get(c, id) ==
    IF HasId(c, id)
    THEN LET e == c[CHOOSE i \in 1..Len(c) : c[i].id = id]
         IN [id |-> e.id, name |-> e.name]
    ELSE None

\* models.all_use_counts: the (name, id, use-count) listing
all_use_counts(c) ==
    [i \in 1..Len(c) |-> [name |-> c[i].name, id |-> c[i].id, use_count |-> c[i].use_count]]

\* models.save: add a note type that has no id yet, else update it
mm_save(c, nt, newId) ==
    IF nt.id = 0
    THEN Append(c, [id |-> newId, name |-> nt.name, use_count |-> 0])
    ELSE [i \in 1..Len(c) |->
            IF c[i].id = nt.id
            THEN [c[i] EXCEPT !.name = nt.name]
            ELSE c[i]]

\* models.rem: remove the note type (and its notes)
mm_rem(c, nt) == SelectSeq(c, LAMBDA e : e.id # nt.id)

\* models.copy: "copy, save and return"
copy_name(name) == Append(name, "c")
mm_copy(m, newId) == [id |-> newId, name |-> copy_name(m.name)]

\* a stock note type, as created by its function: not yet in the collection
stock_notetype == [id |-> 0, name |-> <<"s">>]

VARIABLES
    col,                    \* the collection's note types, in listing order
    scm,                    \* the collection's schema is marked as modified
    nextId,                 \* next note type id the collection hands out
    models,                 \* Models.models, the cached listing
    items,                  \* rows of form.modelsList
    currentRow,             \* form.modelsList.currentRow()
    tasks,                  \* background tasks in flight; the initial load
                            \* carries selected_notetype_id (0 for None),
                            \* which only its on_done reads
    calls                   \* what the latest handler invocation called,
                            \* forgotten when its background task completes

vars == <<col, scm, nextId, models, items, currentRow, tasks, calls>>

Ev(c, ok, txt, n) == [call |-> c, ok |-> ok, txt |-> txt, n |-> n]
Call(c) == Ev(c, TRUE, <<>>, 0)

\* ---- the task manager ----------------------------------------------------
\* with_progress keeps the UI behind a progress window until on_done ran
\* (variant: the UI stays usable while a task runs)
UiIdleAlways == TRUE
UiIdle == tasks = <<>>

Task(kind, nt) == [kind |-> kind, nt |-> nt, done |-> FALSE, result |-> <<>>]
with_progress(kind, nt) == tasks' = Append(tasks, Task(kind, nt))

\* the collection after the closure's mutation
task_apply(c, t) ==
    CASE t.kind = "save" -> mm_save(c, t.nt, nextId)
      [] t.kind = "rem" -> mm_rem(c, t.nt)
      [] OTHER -> c

\* the closure's return value: the mutation, then all_use_counts
\* (variant: the listing is read before the mutation)
task_result_stale(c, t) == all_use_counts(c)
task_result(c, t) == all_use_counts(task_apply(c, t))

\* ---- the list widget -----------------------------------------------------
\* QListWidget.setCurrentRow: a row outside the list leaves no current row
setCurrentRow(row, count) == IF 0 <= row /\ row < count THEN row ELSE -1

label(m) == <<m.name, m.use_count>>

\* Models.updateModelsList
updateModelsList_row(notetypes) ==
    LET row == IF currentRow = -1 THEN 0 ELSE currentRow
    IN setCurrentRow(row, Len(notetypes))

updateModelsList_items(notetypes) ==
    [i \in 1..Len(notetypes) |-> label(notetypes[i])]

\* Models.maybe_select_provided_notetype, on the refreshed list
maybe_select_provided_notetype(ms, row, selected_notetype_id) ==
    IF selected_notetype_id = 0
    THEN setCurrentRow(0, Len(ms))
    ELSE IF \E i \in 1..Len(ms) : ms[i].id = selected_notetype_id
         THEN setCurrentRow((CHOOSE i \in 1..Len(ms) :
                                /\ ms[i].id = selected_notetype_id
                                /\ \A j \in 1..(i - 1) : ms[j].id # selected_notetype_id) - 1,
                            Len(ms))
         ELSE row

\* Models.current_notetype
\* (variant: a missing current row is read as row 0)
current_notetype_clamped ==
    mm_get(col, PyGet(models, IF currentRow < 0 THEN 0 ELSE currentRow).id)
current_notetype == mm_get(col, PyGet(models, currentRow).id)

\* ---- initial state: Models.__init__ / setupModels ------------------------
InitName(i) == [k \in 1..i |-> "a"]
InitCol(n) ==
    [i \in 1..n |-> [id |-> i, name |-> InitName(i), use_count |-> i % 2]]

Init ==
    /\ \E n \in 1..MaxInit :
          /\ col = InitCol(n)
          /\ nextId = n + 1
    /\ scm = FALSE
    /\ models = <<>>
    /\ items = <<>>
    /\ currentRow = -1
    /\ \E selected_notetype_id \in {0, MaxInit} :
          tasks = <<Task("load", [None EXCEPT !.id = selected_notetype_id])>>
    /\ calls = <<>>

\* ---- background task steps -----------------------------------------------
RunTask ==
    \E i \in 1..Len(tasks) :
        /\ ~tasks[i].done
        /\ col' = task_apply(col, tasks[i])
        /\ nextId' = IF tasks[i].kind = "save" /\ tasks[i].nt.id = 0
                     THEN nextId + 1 ELSE nextId
        /\ tasks' = [tasks EXCEPT ![i].done = TRUE,
                                  ![i].result = task_result(col, tasks[i])]
        /\ UNCHANGED <<scm, models, items, currentRow, calls>>

RemoveAt(s, i) == [j \in 1..(Len(s) - 1) |-> IF j < i THEN s[j] ELSE s[j + 1]]

on_done ==
    \E i \in 1..Len(tasks) :
        /\ tasks[i].done
        /\ models' = tasks[i].result
        /\ items' = updateModelsList_items(tasks[i].result)
        /\ currentRow' =
              IF tasks[i].kind = "load"
              THEN maybe_select_provided_notetype(tasks[i].result,
                                                  updateModelsList_row(tasks[i].result),
                                                  tasks[i].nt.id)
              ELSE updateModelsList_row(tasks[i].result)
        /\ tasks' = RemoveAt(tasks, i)
        /\ calls' = <<>>
        /\ UNCHANGED <<col, scm, nextId>>

\* ---- the user picks a row of the list ------------------------------------
SelectRow ==
    /\ UiIdle
    /\ \E r \in 0..(Len(items) - 1) :
          /\ r # currentRow
          /\ currentRow' = r
    /\ UNCHANGED <<col, scm, nextId, models, items,
                   tasks, calls>>

\* ---- handlers ------------------------------------------------------------
Quiet == UNCHANGED <<col, scm, nextId, models, items, currentRow,
                     tasks>>

\* a handler that dies on self.models[row]
IndexError(handler) ==
    /\ calls' = <<Call(handler), Call("IndexError")>>
    /\ Quiet

\* Models.saveAndRefresh
saveAndRefresh(nt) == with_progress("save", nt)

\* getText: the text and whether the prompt was accepted; a cancelled
\* prompt holds the default or a newly typed name
getText_results(default) ==
    {<<txt, TRUE>> : txt \in Texts \cup {default}}
    \cup {<<default, FALSE>>, <<[k \in 1..MaxLen |-> "a"], FALSE>>}

\* Models.onRename, line 107: the prompt was accepted and a name is left
onRename_accepted(ok, name) == ok /\ name # <<>>

\* Models.onRename
onRename ==
    /\ UiIdle
    /\ IF ~PyOk(models, currentRow)
       THEN IndexError("onRename")
       ELSE LET nt == current_notetype
            IN \E in \in getText_results(nt.name) :
                 LET txt == in[1]
                     ok == in[2]
                     name == replace_quote(txt)
                 IN /\ calls' = <<Ev("onRename", TRUE, nt.name, nt.id),
                                  Ev("getText", ok, txt, 0)>>
                                 \o (IF onRename_accepted(ok, name)
                                     THEN <<Call("saveAndRefresh")>> ELSE <<>>)
                    /\ IF onRename_accepted(ok, name)
                       THEN saveAndRefresh([nt EXCEPT !.name = name])
                       ELSE UNCHANGED tasks
                    /\ UNCHANGED <<col, scm, nextId, models, items, currentRow>>

\* AddModel.__init__: the picker's entries, stock note types then clones
AddModel_models ==
    {[isStd |-> TRUE, model |-> stock_notetype]}
    \cup {[isStd |-> FALSE, model |-> mm_get(col, col[i].id)] : i \in 1..Len(col)}

\* the name onAdd gives the new note type
\* (variant: the entered text is taken even when empty)
onAdd_name_always(default, txt) == txt
onAdd_name(default, txt) == IF txt # <<>> THEN txt ELSE default

\* Models.onAdd, with AddModel.get / accept / reject; of the name prompt
\* only the text is read
onAdd ==
    /\ UiIdle
    /\ nextId <= MaxId
    /\ \/ \* AddModel.reject: get() returns None
          /\ calls' = <<Call("onAdd"), Ev("AddModel.get", FALSE, <<>>, 0)>>
          /\ Quiet
       \/ \* AddModel.accept on the current entry
          \E e \in AddModel_models :
            LET m == IF e.isStd THEN e.model ELSE mm_copy(e.model, nextId)
            IN \E typed \in Texts \cup {m.name} :
                 LET txt == replace_quote(typed)
                     nt == [m EXCEPT !.name = onAdd_name(m.name, txt)]
                 IN /\ calls' = <<Call("onAdd"),
                                  Ev("AddModel.get", TRUE, m.name, m.id),
                                  Ev("getText", TRUE, typed, 0),
                                  Call("saveAndRefresh")>>
                    /\ col' = IF e.isStd THEN col
                              ELSE Append(col, [id |-> m.id, name |-> m.name,
                                                use_count |-> 0])
                    /\ nextId' = IF e.isStd THEN nextId ELSE nextId + 1
                    /\ saveAndRefresh(nt)
                    /\ UNCHANGED <<scm, models, items, currentRow>>

\* Models.onDelete, line 147: the last note type is not deleted
\* (variant: only an empty list stops the delete)
too_few_none == Len(models) < 1
too_few == Len(models) < 2

\* Models.onDelete, lines 158-169: schema check, then the remove task
\* (variant: a failed schema check does not stop the delete)
onDelete_remove_unchecked(log, proceed) ==
    /\ calls' = log \o <<Ev("modSchema", scm \/ proceed, <<>>, 0), Call("with_progress")>>
    /\ scm' = (scm \/ proceed)
    /\ with_progress("rem", current_notetype)
    /\ UNCHANGED <<col, nextId, models, items, currentRow>>
onDelete_remove(log, proceed) ==
    IF scm \/ proceed
    THEN /\ calls' = log \o <<Ev("modSchema", TRUE, <<>>, 0), Call("with_progress")>>
         /\ scm' = TRUE
         /\ with_progress("rem", current_notetype)
         /\ UNCHANGED <<col, nextId, models, items, currentRow>>
    ELSE /\ calls' = log \o <<Ev("modSchema", FALSE, <<>>, 0)>>
         /\ Quiet

\* Models.onDelete, lines 155-156: return unless the user said yes
\* (variant: the answer is not looked at)
onDelete_declined_never(ans) == FALSE
onDelete_declined(ans) == ~ans

\* the prompt chosen by the selected entry's use count
onDelete_msg(idx) ==
    IF PyGet(models, idx).use_count # 0 THEN <<"all">> ELSE <<"unused">>

\* Models.onDelete
onDelete ==
    /\ UiIdle
    /\ IF too_few
       THEN /\ calls' = <<Call("onDelete"), Call("showInfo")>>
            /\ Quiet
       ELSE LET idx == currentRow
            IN IF ~PyOk(models, idx)
               THEN IndexError("onDelete")
               ELSE \E ans \in BOOLEAN : \E proceed \in BOOLEAN :
                      LET log == <<Call("onDelete"),
                                   Ev("askUser", ans, onDelete_msg(idx), idx)>>
                      IN IF onDelete_declined(ans)
                         THEN calls' = log /\ Quiet
                         ELSE onDelete_remove(log, proceed)

\* Models.onAdvanced: the options dialog edits the LaTeX keys, which the
\* listing does not show; the note type is saved however the dialog ends
onAdvanced ==
    /\ UiIdle
    /\ IF ~PyOk(models, currentRow)
       THEN IndexError("onAdvanced")
       ELSE LET nt == current_notetype
            IN   /\ calls' = <<Ev("onAdvanced", TRUE, nt.name, nt.id),
                               Call("saveAndRefresh")>>
                 /\ saveAndRefresh(nt)
                 /\ UNCHANGED <<col, scm, nextId, models, items,
                                currentRow>>

Next ==
    \/ RunTask
    \/ on_done
    \/ SelectRow
    \/ onRename
    \/ onAdd
    \/ onDelete
    \/ onAdvanced

Spec == Init /\ [][Next]_vars

\* the worker runs every submitted closure and the task manager delivers
\* every result to the UI thread
FairSpec == Spec /\ WF_vars(RunTask) /\ WF_vars(on_done)

\* ---- properties ----------------------------------------------------------
Unquoted(txt) == SelectSeq(txt, LAMBDA c : c # Quote)
HasQuote(txt) == \E i \in 1..Len(txt) : txt[i] = Quote
InFlight(kind) == \E i \in 1..Len(tasks) : tasks[i].kind = kind
Untouched == UNCHANGED <<col, scm, nextId, models, items, currentRow, tasks>>

\* C1: once the list has been refreshed and is non-empty, the current row
\* indexes an entry of the cached list: 0 <= currentRow < len(models).
C1_RowInRange ==
    (tasks = <<>> /\ models # <<>>) => (0 <= currentRow /\ currentRow < Len(models))

C3_DeleteConfirmed ==
    [][/\ InFlight("rem")' =>
            /\ Len(calls') >= 3
            /\ calls'[1].call = "onDelete"
            /\ calls'[2].call = "askUser"
            /\ calls'[2].ok
            /\ calls'[Len(calls')].call = "with_progress"
       /\ ( /\ calls' # calls
            /\ Len(calls') >= 2
            /\ calls'[2].call = "askUser"
            /\ ~calls'[2].ok ) => (Untouched /\ Len(calls') = 2)
      ]_vars

C3_Witness ==
    /\ Len(calls) = 2
    /\ calls[2].call = "askUser"
    /\ ~calls[2].ok
    /\ Len(models) >= 2
    /\ tasks = <<>>

C5_SchemaGate ==
    [][/\ InFlight("rem")' =>
            /\ Len(calls') = 4
            /\ calls'[2].call = "askUser" /\ calls'[2].ok
            /\ calls'[3].call = "modSchema" /\ calls'[3].ok
            /\ calls'[4].call = "with_progress"
            /\ scm'
       /\ ( /\ calls' # calls
            /\ Len(calls') >= 3
            /\ calls'[3].call = "modSchema"
            /\ ~calls'[3].ok ) => (Untouched /\ Len(calls') = 3)
      ]_vars

C5_Witness ==
    /\ Len(calls) = 3
    /\ calls[3].call = "modSchema"
    /\ ~calls[3].ok
    /\ tasks = <<>>

\* C6: with fewer than two cached note types onDelete only shows the
\* information message and changes nothing; the collection never becomes
\* empty.
C6_LastTypeKept ==
    [][/\ Len(col') >= 1
       /\ ( /\ calls' # calls
            /\ Len(calls') >= 1
            /\ calls'[1].call = "onDelete"
            /\ Len(models) < 2 ) =>
              (calls' = <<Call("onDelete"), Call("showInfo")>> /\ Untouched)
      ]_vars

C6_Witness ==
    /\ calls = <<Call("onDelete"), Call("showInfo")>>
    /\ Len(models) = 1
    /\ Len(col) = 1

\* C7: the note type handed to models.rem is the entry self.models[idx] the
\* confirmation message was chosen for.
C7_DeletesSelected ==
    \A i \in 1..Len(tasks) :
        tasks[i].kind = "rem" =>
            /\ Len(calls) >= 2
            /\ calls[2].call = "askUser"
            /\ PyOk(models, calls[2].n)
            /\ tasks[i].nt.id = PyGet(models, calls[2].n).id
            /\ calls[2].txt = IF PyGet(models, calls[2].n).use_count > 0
                              THEN <<"all">> ELSE <<"unused">>

\* the delete that follows the deletion of the last row
C7_Witness ==
    /\ InFlight("rem")
    /\ Len(calls) >= 2
    /\ calls[2].n = -1
    /\ Len(models) >= 2

\* C8: onRename saves only an accepted, non-empty name, with every double
\* quote removed; otherwise it changes nothing.
C8_RenameGuard ==
    [][/\ ( /\ Len(calls') >= 2
            /\ calls'[1].call = "onRename"
            /\ tasks' # <<>> ) =>
              /\ calls'[2].ok
              /\ Unquoted(calls'[2].txt) # <<>>
              /\ \A i \in 1..Len(tasks') :
                    /\ tasks'[i].kind = "save"
                    /\ tasks'[i].nt.id = calls'[1].n
                    /\ tasks'[i].nt.name = Unquoted(calls'[2].txt)
                    /\ ~HasQuote(tasks'[i].nt.name)
       /\ ( /\ calls' # calls
            /\ Len(calls') >= 2
            /\ calls'[1].call = "onRename"
            /\ (~calls'[2].ok \/ Unquoted(calls'[2].txt) = <<>>) ) =>
              (Untouched /\ Len(calls') = 2)
      ]_vars

C8_Witness ==
    /\ Len(calls) = 3
    /\ calls[1].call = "onRename"
    /\ HasQuote(calls[2].txt)
    /\ Len(tasks) = 1
    /\ tasks[1].nt.name = <<"a">>

\* C9: onAdd changes nothing when the picker is rejected; when it is
\* accepted it always starts the save of the returned note type, named by
\* the unquoted text if that is non-empty and by its default name otherwise.
C9_AddSaves ==
    [][/\ ( /\ Len(calls') >= 2
            /\ calls'[1].call = "onAdd"
            /\ calls'[2].ok ) =>
              /\ Len(calls') = 4
              /\ tasks' # <<>>
              /\ LET t == tasks'[Len(tasks')]
                     txt == Unquoted(calls'[3].txt)
                 IN /\ t.kind = "save"
                    /\ t.nt.id = calls'[2].n
                    /\ t.nt.name = IF txt # <<>> THEN txt ELSE calls'[2].txt
       /\ ( /\ calls' # calls
            /\ Len(calls') >= 2
            /\ calls'[1].call = "onAdd"
            /\ ~calls'[2].ok ) => (Untouched /\ Len(calls') = 2)
      ]_vars

\* a clone whose name prompt was emptied
C9_Witness ==
    /\ Len(calls) = 4
    /\ calls[1].call = "onAdd"
    /\ calls[2].n # 0
    /\ Unquoted(calls[3].txt) = <<>>
    /\ Len(tasks) = 1
    /\ tasks[1].nt.name = calls[2].txt
====
